---------------------------- MODULE Spec2Model ----------------------------
(***************************************************************************)
(* Model of the gas-fee estimators of gas_model/predict_fees.py (the       *)
(* four-tier script) and gas_model/optimized_predict_fees.py (the          *)
(* one-tier variant).                                                      *)
(*                                                                         *)
(* Both programs compute with Python floats: int(tip * 1.2),               *)
(* int(base * math.pow(1.125, k)), int(statistics.median(column)).  The    *)
(* model keeps that arithmetic: a float is a 53-bit significand and a      *)
(* binary exponent, a product of an int and a float is the exact product   *)
(* rounded to nearest-even at 53 bits, and int() truncates.  Significands  *)
(* are limb sequences (base 2^14, least significant first): they do not fit *)
(* the model checker's machine integers.                                   *)
(***************************************************************************)
EXTENDS Integers, Sequences, FiniteSets, TLC

(***************************************************************************)
(* Naturals as limb sequences: base 2^LimbBits, least significant first,   *)
(* no leading zero limb (zero is the empty sequence).                      *)
(***************************************************************************)
LimbBits == 14
LimbBase == 2 ^ LimbBits

RECURSIVE NatToLimbs(_)
NatToLimbs(n) ==
    IF n = 0 THEN <<>> ELSE <<n % LimbBase>> \o NatToLimbs(n \div LimbBase)

RECURSIVE LimbsToNat(_)
LimbsToNat(l) ==
    IF l = <<>> THEN 0 ELSE Head(l) + LimbBase * LimbsToNat(Tail(l))

RECURSIVE Strip(_)
Strip(l) ==
    IF l = <<>> \/ l[Len(l)] # 0 THEN l ELSE Strip(SubSeq(l, 1, Len(l) - 1))

\* l * m + carry, for a small machine integer m > 0.
RECURSIVE TimesSmall(_, _, _)
TimesSmall(l, m, carry) ==
    IF l = <<>> THEN NatToLimbs(carry)
    ELSE LET s == Head(l) * m + carry
         IN  <<s % LimbBase>> \o TimesSmall(Tail(l), m, s \div LimbBase)

\* The sum of a[i] * b[j] over the limbs with (i - 1) + (j - 1) = k.
RECURSIVE LimbColumn(_, _, _, _)
LimbColumn(a, b, k, i) ==
    IF i > Len(a) THEN 0
    ELSE (IF k - i + 2 \in 1..Len(b) THEN a[i] * b[k - i + 2] ELSE 0)
         + LimbColumn(a, b, k, i + 1)

RECURSIVE TimesFrom(_, _, _, _)
TimesFrom(a, b, k, carry) ==
    IF k > Len(a) + Len(b) - 2 THEN NatToLimbs(carry)
    ELSE LET s == LimbColumn(a, b, k, 1) + carry
         IN  <<s % LimbBase>> \o TimesFrom(a, b, k + 1, s \div LimbBase)

\* a * b, schoolbook.
Times(a, b) == IF a = <<>> \/ b = <<>> THEN <<>> ELSE Strip(TimesFrom(a, b, 0, 0))

RECURSIVE SmallBitLen(_)
SmallBitLen(n) == IF n = 0 THEN 0 ELSE 1 + SmallBitLen(n \div 2)

BitLen(l) ==
    IF l = <<>> THEN 0 ELSE LimbBits * (Len(l) - 1) + SmallBitLen(l[Len(l)])

\* Bit i of l, bit 0 the least significant.
BitAt(l, i) ==
    IF (i \div LimbBits) + 1 > Len(l) THEN 0
    ELSE (l[(i \div LimbBits) + 1] \div (2 ^ (i % LimbBits))) % 2

\* Whether the n low bits of l are all zero.
LowZero(l, n) ==
    \A j \in 1..Len(l) :
        LET lo == (j - 1) * LimbBits
        IN  \/ lo >= n
            \/ l[j] % (2 ^ (IF n - lo > LimbBits THEN LimbBits ELSE n - lo)) = 0

\* floor(l / 2^n)
ShiftRight(l, n) ==
    LET q == n \div LimbBits
        s == n % LimbBits
    IN  IF q >= Len(l) THEN <<>>
        ELSE Strip([j \in 1..(Len(l) - q) |->
                 (l[j + q] \div (2 ^ s))
                 + (IF j + q + 1 <= Len(l)
                    THEN (l[j + q + 1] % (2 ^ s)) * (2 ^ (LimbBits - s))
                    ELSE 0)])

\* l * 2^n
RECURSIVE ShiftLeft(_, _)
ShiftLeft(l, n) == IF n = 0 THEN l ELSE ShiftLeft(TimesSmall(l, 2, 0), n - 1)

\* The value of a hexadecimal numeral given as its digits, most significant first.
RECURSIVE FromHex(_)
FromHex(h) ==
    IF h = <<>> THEN <<>>
    ELSE TimesSmall(FromHex(SubSeq(h, 1, Len(h) - 1)), 16, h[Len(h)])

(***************************************************************************)
(* IEEE-754 binary64 values: mant * 2^exp, mant a limb sequence.           *)
(***************************************************************************)
MantBits == 53

Float(hex, e) == [mant |-> FromHex(hex), exp |-> e]

\* Round-to-nearest, ties-to-even, of the exact value p * 2^e to 53 bits.
RoundToDouble(p, e) ==
    IF BitLen(p) <= MantBits THEN [mant |-> p, exp |-> e]
    ELSE LET t      == BitLen(p) - MantBits
             kept   == ShiftRight(p, t)
             guard  == BitAt(p, t - 1)
             sticky == ~LowZero(p, t - 1)
             up     == guard = 1 /\ (sticky \/ kept[1] % 2 = 1)
         IN  [mant |-> IF up THEN TimesSmall(kept, 1, 1) ELSE kept,
              exp  |-> e + t]

\* Python's  x * c  for an int x >= 0 and a float c: x converts exactly (it
\* is below 2^53), the product is correctly rounded.
IntTimesFloat(x, c) == RoundToDouble(Times(c.mant, NatToLimbs(x)), c.exp)

\* Python's int(f) for a float f >= 0: truncation.
IntOfFloat(f) ==
    LimbsToNat(IF f.exp >= 0 THEN ShiftLeft(f.mant, f.exp)
               ELSE ShiftRight(f.mant, -f.exp))

\* int(x * c)
IntOfProduct(x, c) == IntOfFloat(IntTimesFloat(x, c))

\* f + n for a float f >= 0 with f.exp <= 0 and an int n >= 0: the exact
\* sum, correctly rounded.
RECURSIVE PlusLimbs(_, _, _)
PlusLimbs(a, b, carry) ==
    IF a = <<>> /\ b = <<>> THEN NatToLimbs(carry)
    ELSE LET s == (IF a = <<>> THEN 0 ELSE Head(a))
                  + (IF b = <<>> THEN 0 ELSE Head(b)) + carry
         IN  <<s % LimbBase>>
             \o PlusLimbs(IF a = <<>> THEN a ELSE Tail(a),
                          IF b = <<>> THEN b ELSE Tail(b), s \div LimbBase)

FloatPlusInt(f, n) ==
    RoundToDouble(PlusLimbs(f.mant, ShiftLeft(NatToLimbs(n), -f.exp), 0), f.exp)

\* The float literals of the two programs.
F_1_2  == Float(<<1, 3, 3, 3, 3, 3, 3, 3, 3, 3, 3, 3, 3, 3>>, -52)
F_1_15 == Float(<<1, 2, 6, 6, 6, 6, 6, 6, 6, 6, 6, 6, 6, 6>>, -52)
F_0_95 == Float(<<1, 14, 6, 6, 6, 6, 6, 6, 6, 6, 6, 6, 6, 6>>, -53)
F_1_25 == Float(<<5>>, -2)
F_1_0  == Float(<<1>>, 0)
F_0_9  == Float(<<1, 12, 12, 12, 12, 12, 12, 12, 12, 12, 12, 12, 12, 13>>, -53)
F_2_0  == Float(<<2>>, 0)
F_1_5  == Float(<<3>>, -1)

\* math.pow(1.125, k): 1.125^k = 9^k / 2^(3k) is a binary64 value for
\* 0 <= k <= 16 (9^16 < 2^53) and pow returns it exactly; for k = -1 and
\* k = -2 it returns the binary64 value nearest to (8/9)^-k.
RECURSIVE NinePow(_)
NinePow(k) == IF k = 0 THEN <<1>> ELSE TimesSmall(NinePow(k - 1), 9, 0)

MaxExactPow == 16

PowTable == [k \in 0..MaxExactPow |-> [mant |-> NinePow(k), exp |-> -3 * k]]

Pow_1_125(k) ==
    IF k >= 0 THEN PowTable[k]
    ELSE IF k = -1
         THEN Float(<<1, 12, 7, 1, 12, 7, 1, 12, 7, 1, 12, 7, 1, 12>>, -53)
         ELSE Float(<<1, 9, 4, 8, 11, 0, 15, 12, 13, 6, 14, 9, 14, 0>>, -53)

(***************************************************************************)
(* The pure computations of the two programs.                              *)
(***************************************************************************)
\* A Python name is bound to None or to a value: None is the empty tuple,
\* the value v the tuple <<v>>.
None == <<>>
Some(v) == <<v>>
Val(o) == o[1]

Last(s) == s[Len(s)]

RECURSIVE Sum(_)
Sum(s) == IF s = <<>> THEN 0 ELSE Head(s) + Sum(Tail(s))

\* sorted(data)
RECURSIVE Insert(_, _)
Insert(v, s) ==
    IF s = <<>> THEN <<v>>
    ELSE IF v <= Head(s) THEN <<v>> \o s ELSE <<Head(s)>> \o Insert(v, Tail(s))

RECURSIVE sorted(_)
sorted(data) == IF data = <<>> THEN <<>> ELSE Insert(Head(data), sorted(Tail(data)))

\* int(statistics.median(column)) for a non-empty column of ints >= 0: the
\* middle element of the sorted column, or the true quotient
\* (data[i - 1] + data[i]) / 2 of the two middle ones, a float holding the
\* exact half (the sum is far below 2^53), truncated by int().
\* The slip of taking the upper middle element of an even-length column.
median_int_upper(column) ==
    LET data == sorted(column)
    IN  data[(Len(data) \div 2) + 1]

median_int(column) ==
    LET data == sorted(column)
        n    == Len(data)
        i    == n \div 2
    IN  IF n % 2 = 1 THEN data[i + 1]
        ELSE (data[i] + data[i + 1]) \div 2

\* predict_fees.calculate_max_base_fee
calculate_max_base_fee(current_base, blocks_ahead) ==
    IntOfProduct(current_base, Pow_1_125(blocks_ahead))

\* predict_fees.py, the tier-ordering pass over the four smoothed tips.
SaverFloor  == 1000000000
UrgentFloor == 1500000000

\* The pass left out: the smoothed tips as they come.
monotonic_pass_skipped(m30, m60, m75, m90) == <<m30, m60, m75, m90>>

monotonic_pass(m30, m60, m75, m90) ==
    LET t60 == IF m60 <= m30
               THEN (IF m30 > 0 THEN IntOfProduct(m30, F_1_2) ELSE SaverFloor)
               ELSE m60
        t75 == IF m75 <= t60 THEN IntOfProduct(t60, F_1_15) ELSE m75
        t90 == IF m90 <= t75
               THEN (IF t75 > 0 THEN IntOfProduct(t75, F_1_2) ELSE UrgentFloor)
               ELSE m90
    IN  <<m30, t60, t75, t90>>

\* The gas-used ratios of a sample are multiples of 1/RatioDen, which floats
\* hold exactly, so sum(...) is exact and avg_congestion is the correctly
\* rounded quotient sum / len. It is kept as the fraction num / den; a
\* comparison with a float literal p / q is decided on the fractions (two
\* distinct fractions this small are never rounded to the same float).
RatioDen == 8

Avg(ratios) == [num |-> Sum(ratios), den |-> RatioDen * Len(ratios)]

Below(avg, p, q) == avg.num * q < p * avg.den
Above(avg, p, q) == avg.num * q > p * avg.den

\* The discount and the surge exchanged.
congestion_multiplier_swapped(avg) ==
    IF Below(avg, 9, 20) THEN F_1_25
    ELSE IF Above(avg, 4, 5) THEN F_0_95
    ELSE F_1_0

\* predict_fees.py: congestion_multiplier
congestion_multiplier_for(avg) ==
    IF Below(avg, 9, 20) THEN F_0_95
    ELSE IF Above(avg, 4, 5) THEN F_1_25
    ELSE F_1_0

\* predict_fees.py: int(median_tip * congestion_multiplier)
apply_congestion(tip, multiplier) == IntOfProduct(tip, multiplier)

\* optimized_predict_fees.calculate_fees, step 3
adjust_priority_fee(fee, avg) ==
    IF Above(avg, 4, 5) THEN IntOfProduct(fee, F_1_2)
    ELSE IF Below(avg, 3, 10) THEN IntOfProduct(fee, F_0_9)
    ELSE fee

(***************************************************************************)
(* The fee-history samples a node may answer with.  A sample holds n + 1   *)
(* base fees, n reward rows and n gas-used ratios; the values arrive as    *)
(* hexadecimal strings and are held here as the numbers int(x, 16) yields. *)
(***************************************************************************)
MaxBlocks == 2

BaseFeeValues  == {200, 20701018}
GasLevels      == {2, 7}

\* The reward rows of one block, for a request of npct percentiles: the
\* percentiles close together, inverted, well apart, all equal and small, all
\* zero (what a node answers for an empty block), and rows with a wrong
\* number of entries.
RewardRows(npct) ==
    {[i \in 1..npct |-> IF i = 1 THEN 100 ELSE 101],
     [i \in 1..npct |-> IF i = 1 THEN 101 ELSE 100],
     [i \in 1..npct |-> 100 * i],
     [i \in 1..npct |-> 3],
     [i \in 1..npct |-> 0]}
    \cup {[i \in 1..m |-> 100] : m \in {1, npct - 1, npct + 1}}

\* The samples of n blocks answering a request of npct percentiles.
FeeHistories(npct, n) ==
    {[baseFeePerGas |-> b, reward |-> rw, gasUsedRatio |-> g] :
        b  \in [1..(n + 1) -> BaseFeeValues],
        rw \in [1..n -> RewardRows(npct)],
        g  \in [1..n -> GasLevels]}

\* How a fetch can fail: the transport, the HTTP status, an "error" field.
FetchFailures == {"transport", "http", "rpc_error"}

(***************************************************************************)
(* State.  One run executes one of the two programs; the variables are the *)
(* programs' own (module globals of predict_fees.py, locals of             *)
(* optimized_predict_fees.py), None until assigned.  median_tips holds     *)
(* median_tip_30 .. median_tip_90 and max_fees holds max_fee_saver ..      *)
(* max_fee_urgent, in tier order.  printed holds the recommendation lines  *)
(* written so far, err the exception that ended the run.  call and ret     *)
(* belong to the unit harness further down.                                *)
(***************************************************************************)
VARIABLES prog, pc, d, err, printed,
          base_fees, next_block_base_fee,
          rewards, median_tips,
          gas_used_ratios, avg_congestion, congestion_multiplier,
          max_fees,
          is_increasing, suggested_priority_fee, estimates,
          call, ret

computed == <<base_fees, next_block_base_fee, rewards, median_tips,
              gas_used_ratios, avg_congestion, congestion_multiplier,
              max_fees, is_increasing, suggested_priority_fee, estimates>>

unit == <<call, ret>>

vars == <<prog, pc, d, err, printed, computed, unit>>

PERCENTILES     == <<30, 60, 75, 90>>
OPT_PERCENTILES == <<30, 50, 70>>

NoError == "none"

NothingComputed ==
    /\ base_fees = None /\ next_block_base_fee = None
    /\ rewards = None /\ median_tips = None
    /\ gas_used_ratios = None /\ avg_congestion = None
    /\ congestion_multiplier = None /\ max_fees = None
    /\ is_increasing = None /\ suggested_priority_fee = None
    /\ estimates = None

Init ==
    /\ prog \in {"predict_fees", "optimized_predict_fees"}
    /\ pc = "fetch"
    /\ d = None /\ err = NoError /\ printed = <<>>
    /\ NothingComputed
    /\ call = None /\ ret = None

\* An uncaught exception ends the run.
Raise(e) == pc' = "done" /\ err' = e

(***************************************************************************)
(* predict_fees.py, top to bottom.                                         *)
(***************************************************************************)
\* The exception printed but not raised again: the run goes on with the
\* result left at an empty sample.
pf_fetch_swallowed ==
    /\ prog = "predict_fees" /\ pc = "fetch"
    /\ \/ /\ \E n \in 0..MaxBlocks :
                \E h \in FeeHistories(Len(PERCENTILES), n) : d' = Some(h)
          /\ pc' = "base_fee" /\ err' = err
       \/ \E f \in FetchFailures :
             /\ d' = Some([baseFeePerGas |-> <<0>>, reward |-> <<>>,
                            gasUsedRatio |-> <<>>])
             /\ pc' = "base_fee" /\ err' = f
    /\ UNCHANGED <<prog, printed, computed, unit>>

\* fetch_fee_history and  d = fetch_fee_history(): an exception is printed
\* and raised again.
pf_fetch ==
    /\ prog = "predict_fees" /\ pc = "fetch"
    /\ \/ /\ \E n \in 0..MaxBlocks :
                \E h \in FeeHistories(Len(PERCENTILES), n) : d' = Some(h)
          /\ pc' = "base_fee" /\ err' = err
       \/ \E f \in FetchFailures : d' = d /\ Raise(f)
    /\ UNCHANGED <<prog, printed, computed, unit>>

\* STEP 2: base_fees, next_block_base_fee
pf_base_fee ==
    /\ prog = "predict_fees" /\ pc = "base_fee"
    /\ base_fees' = Some(Val(d).baseFeePerGas)
    /\ next_block_base_fee' = Some(Last(Val(d).baseFeePerGas))
    /\ pc' = "tips"
    /\ UNCHANGED <<prog, d, err, printed, rewards, median_tips,
                   gas_used_ratios, avg_congestion, congestion_multiplier,
                   max_fees, is_increasing, suggested_priority_fee,
                   estimates, unit>>

\* STEP 3, first half: rewards, the four columns r[0] .. r[3] and their
\* smoothed values. A row with fewer than four entries raises IndexError,
\* an empty column StatisticsError.
Column(rows, i) == [b \in 1..Len(rows) |-> rows[b][i]]

pf_tips ==
    /\ prog = "predict_fees" /\ pc = "tips"
    /\ rewards' = Some(Val(d).reward)
    /\ LET rows == Val(d).reward
       IN  IF \E b \in 1..Len(rows) : Len(rows[b]) < Len(PERCENTILES)
           THEN Raise("IndexError") /\ median_tips' = median_tips
           ELSE IF rows = <<>>
                THEN Raise("StatisticsError") /\ median_tips' = median_tips
                ELSE /\ median_tips' =
                            Some([i \in 1..Len(PERCENTILES) |->
                                     median_int(Column(rows, i))])
                     /\ pc' = "monotonic" /\ err' = err
    /\ UNCHANGED <<prog, d, printed, base_fees, next_block_base_fee,
                   gas_used_ratios, avg_congestion, congestion_multiplier,
                   max_fees, is_increasing, suggested_priority_fee,
                   estimates, unit>>

\* STEP 3, second half: "Enforce minimum improvement"
pf_monotonic ==
    /\ prog = "predict_fees" /\ pc = "monotonic"
    /\ median_tips' =
           Some(monotonic_pass(Val(median_tips)[1], Val(median_tips)[2],
                               Val(median_tips)[3], Val(median_tips)[4]))
    /\ pc' = "congestion"
    /\ UNCHANGED <<prog, d, err, printed, base_fees, next_block_base_fee,
                   rewards, gas_used_ratios, avg_congestion,
                   congestion_multiplier, max_fees, is_increasing,
                   suggested_priority_fee, estimates, unit>>

\* STEP 4: avg_congestion (ZeroDivisionError without blocks), the
\* multiplier, and the four tips scaled by it.
pf_congestion ==
    /\ prog = "predict_fees" /\ pc = "congestion"
    /\ gas_used_ratios' = Some(Val(d).gasUsedRatio)
    /\ IF Val(d).gasUsedRatio = <<>>
       THEN /\ Raise("ZeroDivisionError")
            /\ UNCHANGED <<avg_congestion, congestion_multiplier, median_tips>>
       ELSE LET avg == Avg(Val(d).gasUsedRatio)
                m   == congestion_multiplier_for(avg)
            IN  /\ avg_congestion' = Some(avg)
                /\ congestion_multiplier' = Some(m)
                /\ median_tips' =
                       Some([i \in 1..Len(PERCENTILES) |->
                                apply_congestion(Val(median_tips)[i], m)])
                /\ pc' = "tiers" /\ err' = err
    /\ UNCHANGED <<prog, d, printed, base_fees, next_block_base_fee, rewards,
                   max_fees, is_increasing, suggested_priority_fee,
                   estimates, unit>>

\* The Urgent tier projected with the Recommended tier's horizon.
TierHorizons_copied == <<2, 4, 6, 6>>

\* STEP 5: the drift horizon of each tier, Saver to Urgent, and the caps.
TierHorizons == <<2, 4, 6, 10>>
TierNames    == <<"SAVER", "STANDARD", "RECOMMENDED", "URGENT">>

pf_tiers ==
    /\ prog = "predict_fees" /\ pc = "tiers"
    /\ max_fees' =
           Some([i \in 1..Len(TierHorizons) |->
                    calculate_max_base_fee(Val(next_block_base_fee),
                                           TierHorizons[i])
                    + Val(median_tips)[i]])
    /\ pc' = "print"
    /\ UNCHANGED <<prog, d, err, printed, base_fees, next_block_base_fee,
                   rewards, median_tips, gas_used_ratios, avg_congestion,
                   congestion_multiplier, is_increasing,
                   suggested_priority_fee, estimates, unit>>

\* The table: one line per tier, formatted from its cap and its tip.  fmt_gwei
\* rounds for display only; a line is kept as the values it is formatted from.
pf_print ==
    /\ prog = "predict_fees" /\ pc = "print"
    /\ printed' =
           [i \in 1..Len(TierNames) |->
               [tier |-> TierNames[i], max_fee |-> Val(max_fees)[i],
                priority |-> Val(median_tips)[i]]]
    /\ pc' = "done"
    /\ UNCHANGED <<prog, d, err, computed, unit>>

(***************************************************************************)
(* optimized_predict_fees.py: main, get_fee_history and calculate_fees,    *)
(* the latter in its four numbered steps.                                  *)
(***************************************************************************)
\* main calls get_fee_history, which answers None after any failure, and
\* goes on only  if history.
opt_fetch ==
    /\ prog = "optimized_predict_fees" /\ pc = "fetch"
    /\ \/ /\ \E n \in 0..MaxBlocks :
                \E h \in FeeHistories(Len(OPT_PERCENTILES), n) : d' = Some(h)
          /\ pc' = "base_fee"
       \/ \E f \in FetchFailures : d' = None /\ pc' = "done"
    /\ UNCHANGED <<prog, err, printed, computed, unit>>

\* base_fees[-6:-1]
RecentBaseFees(fees) ==
    SubSeq(fees, IF Len(fees) > 6 THEN Len(fees) - 5 ELSE 1, Len(fees) - 1)

\* 1. Base Fee: an empty recent_base_fees raises IndexError.
opt_base_fee ==
    /\ prog = "optimized_predict_fees" /\ pc = "base_fee"
    /\ base_fees' = Some(Val(d).baseFeePerGas)
    /\ next_block_base_fee' = Some(Last(Val(d).baseFeePerGas))
    /\ LET recent == RecentBaseFees(Val(d).baseFeePerGas)
       IN  IF recent = <<>>
           THEN Raise("IndexError") /\ is_increasing' = is_increasing
           ELSE /\ is_increasing' = Some(Last(recent) > recent[1])
                /\ pc' = "priority_fee" /\ err' = err
    /\ UNCHANGED <<prog, d, printed, rewards, median_tips, gas_used_ratios,
                   avg_congestion, congestion_multiplier, max_fees,
                   suggested_priority_fee, estimates, unit>>

\* 2. Priority Fee: r[1] of every row (IndexError on a row of one entry) and
\* the median of that column.
opt_priority_fee ==
    /\ prog = "optimized_predict_fees" /\ pc = "priority_fee"
    /\ LET rows == Val(d).reward
       IN  IF \E b \in 1..Len(rows) : Len(rows[b]) < 2
           THEN Raise("IndexError")
                /\ suggested_priority_fee' = suggested_priority_fee
           ELSE IF rows = <<>>
                THEN Raise("StatisticsError")
                     /\ suggested_priority_fee' = suggested_priority_fee
                ELSE /\ suggested_priority_fee' =
                            Some(median_int(Column(rows, 2)))
                     /\ pc' = "congestion" /\ err' = err
    /\ UNCHANGED <<prog, d, printed, base_fees, next_block_base_fee, rewards,
                   median_tips, gas_used_ratios, avg_congestion,
                   congestion_multiplier, max_fees, is_increasing, estimates,
                   unit>>

\* 3. Dynamic Buffer based on Congestion
opt_congestion ==
    /\ prog = "optimized_predict_fees" /\ pc = "congestion"
    /\ gas_used_ratios' = Some(Val(d).gasUsedRatio)
    /\ IF Val(d).gasUsedRatio = <<>>
       THEN /\ Raise("ZeroDivisionError")
            /\ UNCHANGED <<avg_congestion, suggested_priority_fee>>
       ELSE /\ avg_congestion' = Some(Avg(Val(d).gasUsedRatio))
            /\ suggested_priority_fee' =
                   Some(adjust_priority_fee(Val(suggested_priority_fee),
                                            Avg(Val(d).gasUsedRatio)))
            /\ pc' = "max_fee" /\ err' = err
    /\ UNCHANGED <<prog, d, printed, base_fees, next_block_base_fee, rewards,
                   median_tips, congestion_multiplier, max_fees,
                   is_increasing, estimates, unit>>

\* 4. Max Fee Calculation, and the dict calculate_fees returns.
base_fee_multiplier_for(increasing, avg) ==
    IF ~increasing /\ Below(avg, 1, 2) THEN F_1_5 ELSE F_2_0

opt_max_fee ==
    /\ prog = "optimized_predict_fees" /\ pc = "max_fee"
    /\ estimates' =
           Some([base_fee_next |-> Val(next_block_base_fee),
                 priority_fee_suggested |-> Val(suggested_priority_fee),
                 max_fee_per_gas |->
                     IntOfFloat(FloatPlusInt(
                         IntTimesFloat(Val(next_block_base_fee),
                             base_fee_multiplier_for(Val(is_increasing),
                                                     Val(avg_congestion))),
                         Val(suggested_priority_fee))),
                 congestion |-> Val(avg_congestion)])
    /\ pc' = "print"
    /\ UNCHANGED <<prog, d, err, printed, base_fees, next_block_base_fee,
                   rewards, median_tips, gas_used_ratios, avg_congestion,
                   congestion_multiplier, max_fees, is_increasing,
                   suggested_priority_fee, unit>>

\* main prints the estimates; the "Max Fee (Cap)" line divides by
\* base_fee_next before the recommendation lines are reached.
opt_print ==
    /\ prog = "optimized_predict_fees" /\ pc = "print"
    /\ IF Val(estimates).base_fee_next = 0
       THEN Raise("ZeroDivisionError") /\ printed' = printed
       ELSE /\ printed' =
                   <<[maxPriorityFeePerGas |->
                          Val(estimates).priority_fee_suggested,
                      maxFeePerGas |-> Val(estimates).max_fee_per_gas]>>
            /\ pc' = "done" /\ err' = err
    /\ UNCHANGED <<prog, d, computed, unit>>

Next ==
    \/ pf_fetch
    \/ pf_base_fee
    \/ pf_tips
    \/ pf_monotonic
    \/ pf_congestion
    \/ pf_tiers
    \/ pf_print
    \/ opt_fetch
    \/ opt_base_fee
    \/ opt_priority_fee
    \/ opt_congestion
    \/ opt_max_fee
    \/ opt_print

Spec == Init /\ [][Next]_vars

(***************************************************************************)
(* Unit harness: the pure computations applied to arguments drawn from     *)
(* bounded sets.                                                           *)
(***************************************************************************)
MaxBase   == 20
MaxTip    == 40
MaxColumn == 4

ProjectHorizons == {-2, -1, 0, 1, 2, 4, 6, 10}
ColumnValues    == {1, 2, 5}
Scenario2Column == [i \in 1..10 |-> i]
UnitTips        == (0..MaxTip) \cup {100, 101, SaverFloor}

ProjectCalls ==
    {[fn |-> "calculate_max_base_fee", base |-> b, k |-> k] :
        b \in (0..MaxBase) \cup BaseFeeValues, k \in ProjectHorizons}

SmoothCalls ==
    {[fn |-> "smooth", column |-> c] :
        c \in UNION {[1..n -> ColumnValues] : n \in 0..MaxColumn}
              \cup {Scenario2Column}}

AdjustCalls ==
    {[fn |-> f, tip |-> t, avg |-> [num |-> g, den |-> RatioDen]] :
        f \in {"predict_fees.congestion", "optimized.congestion"},
        t \in UnitTips, g \in 0..RatioDen}

InitUnit ==
    /\ prog = "unit" /\ pc = "call"
    /\ d = None /\ err = NoError /\ printed = <<>>
    /\ NothingComputed
    /\ \E c \in ProjectCalls \cup SmoothCalls \cup AdjustCalls : call = Some(c)
    /\ ret = None

Return(v) ==
    /\ ret' = Some(v) /\ pc' = "returned"
    /\ UNCHANGED <<prog, d, err, printed, computed, call>>

Raised(e) ==
    /\ err' = e /\ pc' = "returned"
    /\ UNCHANGED <<prog, d, printed, computed, call, ret>>

unit_calculate_max_base_fee ==
    /\ pc = "call" /\ Val(call).fn = "calculate_max_base_fee"
    /\ Return(calculate_max_base_fee(Val(call).base, Val(call).k))

\* int(statistics.median(column)), as at predict_fees.py 101-104 and
\* optimized_predict_fees.py 85
unit_smooth ==
    /\ pc = "call" /\ Val(call).fn = "smooth"
    /\ IF Val(call).column = <<>> THEN Raised("StatisticsError")
       ELSE Return(median_int(Val(call).column))

\* predict_fees.py 130-141 on one tip
unit_congestion ==
    /\ pc = "call" /\ Val(call).fn = "predict_fees.congestion"
    /\ Return(apply_congestion(Val(call).tip,
                               congestion_multiplier_for(Val(call).avg)))

\* optimized_predict_fees.py 92-96
unit_opt_congestion ==
    /\ pc = "call" /\ Val(call).fn = "optimized.congestion"
    /\ Return(adjust_priority_fee(Val(call).tip, Val(call).avg))

NextUnit ==
    \/ unit_calculate_max_base_fee
    \/ unit_smooth
    \/ unit_congestion
    \/ unit_opt_congestion

SpecUnit == InitUnit /\ [][NextUnit]_vars

(***************************************************************************)
(* Properties.                                                             *)
(***************************************************************************)
Predict   == prog = "predict_fees"
Optimized == prog = "optimized_predict_fees"

\* 1 + minIncrementRatio of the pairs Saver/Standard, Standard/Recommended,
\* Recommended/Urgent: the floats the code multiplies by.
MinIncrement == <<F_1_2, F_1_15, F_1_2>>

\* tips[i] * (1 + minIncrementRatio) <= tips[i + 1] for the three adjacent
\* pairs, the left side truncated to an integer the way the code truncates a
\* raised value (the weakest reading of "within integer truncation").
TierOrdering(tips) ==
    \A i \in 1..3 : IntOfProduct(tips[i], MinIncrement[i]) <= tips[i + 1]

NonDecreasing(s) == \A i \in 1..(Len(s) - 1) : s[i] <= s[i + 1]

\* C1: after the monotonicity pass and before the congestion adjustment,
\* every adjacent tier pair satisfies tips[i] * (1 + minIncrementRatio) <=
\* tips[i+1], up to integer truncation of the raised value.
C1_TierOrderingAfterPass ==
    (Predict /\ pc = "congestion") => TierOrdering(Val(median_tips))

\* C2: with average utilization above 0.80 the multiplier 1.25 is applied to
\* every tier's tip, and the boosted, truncated tips still satisfy the
\* tier-ordering invariant.
C2_SurgeKeepsTierOrdering ==
    (Predict /\ pc \in {"tiers", "print"}
       /\ Above(Val(avg_congestion), 80, 100))
    => /\ Val(congestion_multiplier) = F_1_25
       /\ TierOrdering(Val(median_tips))

\* The congestion adjuster applied to one tip: the harness calls of either
\* program that have returned.
Adjusted(f) == prog = "unit" /\ pc = "returned" /\ Val(call).fn = f

CallLow(p, q)  == Val(call).avg.num * q < p * Val(call).avg.den
CallHigh(p, q) == Val(call).avg.num * q > p * Val(call).avg.den

SampleTips(sample) ==
    LET m == [i \in 1..4 |-> median_int(Column(sample.reward, i))]
        t == monotonic_pass(m[1], m[2], m[3], m[4])
        c == congestion_multiplier_for(Avg(sample.gasUsedRatio))
    IN  [i \in 1..4 |-> apply_congestion(t[i], c)]

ExactProjection(base, k) ==
    LimbsToNat(ShiftRight(Times(NinePow(k), NatToLimbs(base)), 3 * k))

Projected == prog = "unit" /\ pc = "returned"
             /\ Val(call).fn = "calculate_max_base_fee"

\* C5: calculate_max_base_fee(base, k) is floor(base * 1.125^k) for every
\* base and every k >= 0; project(base, 0) = base; project(200, 4) = 320.
C5_ProjectionIsExactFloor ==
    (Projected /\ Val(call).k >= 0) =>
        /\ Val(ret) = ExactProjection(Val(call).base, Val(call).k)
        /\ Val(call).k = 0 => Val(ret) = Val(call).base
        /\ (Val(call).base = 200 /\ Val(call).k = 4) => Val(ret) = 320

Smoothed == prog = "unit" /\ pc = "returned" /\ Val(call).fn = "smooth"
            /\ Val(call).column # <<>>

\* The k-th smallest value of a column: fewer than k entries lie below it and
\* at least k are not above it.
KthSmallest(c, k) ==
    CHOOSE v \in {c[i] : i \in 1..Len(c)} :
        /\ Cardinality({i \in 1..Len(c) : c[i] < v}) < k
        /\ Cardinality({i \in 1..Len(c) : c[i] <= v}) >= k

\* C6: the smoothed tip of a column is its median truncated to an integer:
\* the middle value of the sorted column for odd length, the floor of the
\* average of the two middle values for even length; column 1..10 gives 5.
C6_SmoothIsTruncatedMedian ==
    Smoothed =>
        LET c == Val(call).column
            n == Len(c)
        IN  /\ n % 2 = 1 => Val(ret) = KthSmallest(c, (n + 1) \div 2)
            /\ n % 2 = 0 =>
                  2 * Val(ret) \in
                      {KthSmallest(c, n \div 2) + KthSmallest(c, (n \div 2) + 1),
                       KthSmallest(c, n \div 2) + KthSmallest(c, (n \div 2) + 1) - 1}
            /\ c = Scenario2Column => Val(ret) = 5

\* Scenario 2: the column 1..10 smoothed to 5.
C6_Witness == Smoothed /\ Val(call).column = Scenario2Column /\ Val(ret) = 5

\* The number of percentiles the running program requested.
Requested == IF Predict THEN Len(PERCENTILES) ELSE Len(OPT_PERCENTILES)

Malformed(sample) ==
    \E b \in 1..Len(sample.reward) : Len(sample.reward[b]) # Requested

\* C7: a sample whose reward tuples do not all have the length of the
\* percentile list fails with an error and produces no recommendation.
C7_MalformedRowsRejected ==
    ((Predict \/ Optimized) /\ pc = "done" /\ d # None /\ Malformed(Val(d)))
    => (err # NoError /\ printed = <<>>)

\* The fetch failed: predict_fees.py ended with the failure raised again,
\* optimized_predict_fees.py left history at None.
FetchFailed ==
    \/ Predict /\ err \in FetchFailures
    \/ Optimized /\ pc # "fetch" /\ d = None

\* C8: after a failed fetch the run is over, nothing was computed and no
\* recommendation was printed.
C8_FailedFetchComputesNothing ==
    FetchFailed => (pc = "done" /\ printed = <<>> /\ NothingComputed)

\* get_fee_history answered None and main ended without a recommendation.
C8_Witness == Optimized /\ pc = "done" /\ d = None /\ printed = <<>>

\* C9: calculate_max_base_fee(base, k) with k < 0 is rejected with an
\* input-validation error and returns no projected fee.
C9_NegativeHorizonRejected ==
    (Projected /\ Val(call).k < 0) => (err # NoError /\ ret = None)

\* C10: the final tips and the final fee caps of the four tiers are
\* non-decreasing in tier order, whatever the sample.
C10_FinalTiersNonDecreasing ==
    /\ (Predict /\ pc \in {"tiers", "print"}) => NonDecreasing(Val(median_tips))
    /\ (Predict /\ pc = "print") => NonDecreasing(Val(max_fees))
    /\ (Predict /\ pc = "done" /\ err = NoError) =>
          /\ NonDecreasing([i \in 1..4 |-> printed[i].priority])
          /\ NonDecreasing([i \in 1..4 |-> printed[i].max_fee])

\* A finished run whose historical medians were inverted: every higher
\* percentile's median lies below the Saver's.
C10_Witness ==
    /\ Predict /\ pc = "done" /\ err = NoError
    /\ \A i \in 2..4 :
          median_int(Column(Val(d).reward, i))
              < median_int(Column(Val(d).reward, 1))

=============================================================================
